---- MODULE Spec2Model ----
(***************************************************************************)
(* Model of the CSV -> RDF/XML conversion pipeline:                        *)
(*   HierarchyParser.parse        (src/src/hierarchy_parser.py)            *)
(*   XMLGenerator.generate        (src/src/modules/xml_generator.py)       *)
(*   process_file                 (src/src/main.py)                        *)
(*                                                                         *)
(* Representation.                                                         *)
(*   - A path string is kept as the sequence of the raw segments that      *)
(*     str.split('\\') yields; Blank is a segment that str.strip() empties.*)
(*   - A Python tuple of strings is a TLA+ sequence of strings.            *)
(*   - A Python dict is a sequence of <<key, value>> pairs in insertion    *)
(*     order (the order dict.items() iterates in).                         *)
(*   - A formatted string f"#_{x}" is the sequence <<"#_">> \o x of its    *)
(*     pieces, so that prefixing is not the identity.                      *)
(*   - uuid4() returns a fresh value per call: the k-th call of one        *)
(*     generate run returns the text of k; which node is served k-th is    *)
(*     the iteration order of the set all_nodes (see IterOrders).          *)
(***************************************************************************)
EXTENDS Integers, Sequences, FiniteSets, TLC

VARIABLES
    pc,                \* position in process_file / generate
    records,           \* the (path, uid, cck_code) triples _read_lines returned
    path_to_uid,       \* parser.path_to_uid (virtual containers)
    paths,             \* parse()[0] / generate's paths argument
    external_children, \* parse()[1] / generate's external_children argument
    cck_map,           \* parse()[2] / generate's cck_map argument
    parent_uid_map,    \* parse()[3] / generate's parent_uid_map argument
    all_nodes,         \* generate: all_nodes
    children_map,      \* generate: children_map
    parent_map,        \* generate: parent_map
    id_map,            \* generate: id_map
    processed,         \* generate: processed
    q,                 \* generate: q (FIFO queue)
    elements,          \* generate: the elements appended to lines, in order
    result,            \* what generate handed back to its caller
    rows,              \* the rows of the CSV file (csv.DictReader dicts)
    new_lines,         \* _create_modified_csv: new_lines
    fresh,             \* _create_modified_csv: number of uuid4() calls so far
    csv_file,          \* the *_modified file as written
    user_config,       \* ConfigManager: the content of the config file
    _config,           \* ConfigManager: self._config
    got,               \* ConfigManager: the last get call and what it returned
    calls,             \* LoggerManager: the calls made so far, with what they returned
    loggers,           \* LoggerManager: self.loggers
    handlers           \* logging: the handlers of the logger of each name

vars == <<pc, records, path_to_uid, paths, external_children, cck_map,
          parent_uid_map, all_nodes, children_map, parent_map, id_map,
          processed, q, elements, result, rows, new_lines, fresh, csv_file,
          user_config, _config, got, calls, loggers, handlers>>

---------------------------------------------------------------------------
(* Bounds and input alphabets *)

MaxLen == 3

MaxRecords == 2

MaxPaths == 2

\* rows of a CSV file
MaxRows == 2

\* keys in the key path of a get call
MaxKeys == 3

\* calls on one LoggerManager
MaxCalls == 3

\* paths of a generate call with siblings
MaxWide == 3

\* records of a parse call on paths of three segment names
MaxTrio == 3

Segs == {"a", "b"}

Blank == " "

Uids == {"U1", "U2"}

Codes == {"K1"}

\* the parent_uid argument of generate (the root folder's uid)
RootUid == "ROOT"

SeqUpTo(S, n) == UNION {[1..k -> S] : k \in 0..n}

\* str < str on the segment alphabet
SegRank(s) == IF s = "a" THEN 1 ELSE IF s = "b" THEN 2 ELSE 3

Range(s) == {s[i] : i \in 1..Len(s)}

Prefix(p, i) == SubSeq(p, 1, i)

---------------------------------------------------------------------------
(* Python dict as an insertion-ordered sequence of <<key, value>> *)

DictHas(d, k) == \E i \in 1..Len(d) : d[i][1] = k

DictGet(d, k) == d[CHOOSE i \in 1..Len(d) : d[i][1] = k][2]

DictSet(d, k, v) ==
    IF DictHas(d, k)
    THEN [i \in 1..Len(d) |-> IF d[i][1] = k THEN <<k, v>> ELSE d[i]]
    ELSE Append(d, <<k, v>>)

DictKeys(d) == {d[i][1] : i \in 1..Len(d)}

---------------------------------------------------------------------------
(* HierarchyParser *)

\* str.strip() on one raw segment
Strip(s) == IF s = Blank THEN "" ELSE s

\* tuple(p.strip() for p in line.split('\\') if p.strip())
SplitParts(line) ==
    LET stripped == [i \in 1..Len(line) |-> Strip(line[i])]
        NonEmpty(s) == s # ""
    IN  SelectSeq(stripped, NonEmpty)

\* mutant: after a dropped segment the next one is kept without comparison
RECURSIVE NormalizeFrom_KeepAfterDrop(_, _, _)
NormalizeFrom_KeepAfterDrop(path, i, normalized) ==
    IF i > Len(path) THEN normalized
    ELSE IF path[i] # normalized[Len(normalized)]
         THEN NormalizeFrom_KeepAfterDrop(path, i + 1, Append(normalized, path[i]))
         ELSE IF i + 1 > Len(path) THEN normalized
         ELSE NormalizeFrom_KeepAfterDrop(path, i + 2, Append(normalized, path[i + 1]))

RECURSIVE NormalizeFrom(_, _, _)
NormalizeFrom(path, i, normalized) ==
    IF i > Len(path) THEN normalized
    ELSE IF path[i] # normalized[Len(normalized)]
         THEN NormalizeFrom(path, i + 1, Append(normalized, path[i]))
         ELSE NormalizeFrom(path, i + 1, normalized)

\* mutant: the path is returned as it is
_normalize_path_Unchanged(path) == path

_normalize_path(path) ==
    IF path = <<>> THEN path ELSE NormalizeFrom(path, 2, <<path[1]>>)

\* mutant: the empty path is kept
Truthy_Always(t) == TRUE

\* `if normalized_parts:` -- a tuple is true when it is not empty
Truthy(t) == t # <<>>

\* mutant: a record without an external id takes the path's external id away
RECURSIVE CollectFrom_LastRecordWins(_, _, _)
CollectFrom_LastRecordWins(lines, i, acc) ==
    IF i > Len(lines) THEN acc
    ELSE LET normalized_parts == _normalize_path(SplitParts(lines[i][1]))
             uid == lines[i][2]
             cck_code == lines[i][3]
         IN  IF Truthy(normalized_parts)
             THEN CollectFrom_LastRecordWins(lines, i + 1,
                    [all_paths |-> Append(acc.all_paths, normalized_parts),
                     path_to_uid |-> IF uid # ""
                                     THEN DictSet(acc.path_to_uid, normalized_parts, uid)
                                     ELSE SelectSeq(acc.path_to_uid,
                                                    LAMBDA item : item[1] # normalized_parts),
                     path_to_cck |-> IF cck_code # ""
                                     THEN DictSet(acc.path_to_cck, normalized_parts, cck_code)
                                     ELSE acc.path_to_cck])
             ELSE CollectFrom_LastRecordWins(lines, i + 1, acc)

\* parse, first loop: all_paths, path_to_uid, path_to_cck
RECURSIVE CollectFrom(_, _, _)
CollectFrom(lines, i, acc) ==
    IF i > Len(lines) THEN acc
    ELSE LET normalized_parts == _normalize_path(SplitParts(lines[i][1]))
             uid == lines[i][2]
             cck_code == lines[i][3]
         IN  IF Truthy(normalized_parts)
             THEN CollectFrom(lines, i + 1,
                    [all_paths |-> Append(acc.all_paths, normalized_parts),
                     path_to_uid |-> IF uid # ""
                                     THEN DictSet(acc.path_to_uid, normalized_parts, uid)
                                     ELSE acc.path_to_uid,
                     path_to_cck |-> IF cck_code # ""
                                     THEN DictSet(acc.path_to_cck, normalized_parts, cck_code)
                                     ELSE acc.path_to_cck])
             ELSE CollectFrom(lines, i + 1, acc)

Collect(lines) ==
    CollectFrom(lines, 1, [all_paths |-> <<>>, path_to_uid |-> <<>>, path_to_cck |-> <<>>])

\* mutant: only the immediate parent of each path is added
WithAncestors_ParentOnly(all_paths, p2u) ==
    LET seed == Range(all_paths)
        parents == {_normalize_path(Prefix(path, Len(path) - 1)) :
                      path \in {x \in seed : Len(x) > 1}}
    IN  seed \cup {a \in parents : ~DictHas(p2u, a)}

\* parse, steps 1 and 2: every raw path, then every ancestor of a path of the
\* snapshot list(paths_to_create) that is no virtual container
WithAncestors(all_paths, p2u) ==
    LET seed == Range(all_paths)
        ancestors == UNION {{_normalize_path(Prefix(path, i)) : i \in 1..(Len(path) - 1)} :
                              path \in seed}
    IN  seed \cup {a \in ancestors : ~DictHas(p2u, a)}

\* parse, step 3, inner loop: children of one virtual container among all_paths
RECURSIVE MapChildrenFrom(_, _, _, _, _)
MapChildrenFrom(all_paths, j, virtual_path, uid, pum) ==
    IF j > Len(all_paths) THEN pum
    ELSE LET child_path == all_paths[j]
         IN  IF /\ Len(child_path) = Len(virtual_path) + 1
                /\ Prefix(child_path, Len(virtual_path)) = virtual_path
             THEN MapChildrenFrom(all_paths, j + 1, virtual_path, uid,
                                  DictSet(pum, child_path, uid))
             ELSE MapChildrenFrom(all_paths, j + 1, virtual_path, uid, pum)

\* external_children[normalized_parent].append(uid) on a defaultdict(list)
AppendChild(ext, parent, uid) ==
    IF DictHas(ext, parent)
    THEN DictSet(ext, parent, Append(DictGet(ext, parent), uid))
    ELSE DictSet(ext, parent, <<uid>>)

\* mutant: the external id is recorded under a parent that is a virtual container too
RECURSIVE VirtualFrom_AnyParent(_, _, _, _)
VirtualFrom_AnyParent(p2u, k, all_paths, acc) ==
    IF k > Len(p2u) THEN acc
    ELSE LET virtual_path == p2u[k][1]
             uid == p2u[k][2]
             normalized_parent ==
                 _normalize_path(Prefix(virtual_path, Len(virtual_path) - 1))
             ext == IF Len(virtual_path) > 1
                    THEN AppendChild(acc.external_children, normalized_parent, uid)
                    ELSE acc.external_children
         IN  VirtualFrom_AnyParent(p2u, k + 1, all_paths,
                [external_children |-> ext,
                 parent_uid_map |->
                     MapChildrenFrom(all_paths, 1, virtual_path, uid, acc.parent_uid_map)])

\* parse, step 3: for virtual_path, uid in path_to_uid.items()
RECURSIVE VirtualFrom(_, _, _, _)
VirtualFrom(p2u, k, all_paths, acc) ==
    IF k > Len(p2u) THEN acc
    ELSE LET virtual_path == p2u[k][1]
             uid == p2u[k][2]
             normalized_parent ==
                 _normalize_path(Prefix(virtual_path, Len(virtual_path) - 1))
             ext == IF Len(virtual_path) > 1 /\ ~DictHas(p2u, normalized_parent)
                    THEN AppendChild(acc.external_children, normalized_parent, uid)
                    ELSE acc.external_children
         IN  VirtualFrom(p2u, k + 1, all_paths,
                [external_children |-> ext,
                 parent_uid_map |->
                     MapChildrenFrom(all_paths, 1, virtual_path, uid, acc.parent_uid_map)])

\* tuple < tuple as Python compares them (lexicographic, a proper prefix is smaller)
RECURSIVE PathLessFrom(_, _, _)
PathLessFrom(p, r, i) ==
    IF i > Len(p) THEN i <= Len(r)
    ELSE IF i > Len(r) THEN FALSE
    ELSE IF p[i] = r[i] THEN PathLessFrom(p, r, i + 1)
    ELSE SegRank(p[i]) < SegRank(r[i])

PathLess(p, r) == PathLessFrom(p, r, 1)

\* mutant: the largest path first
RECURSIVE Sorted_Descending(_)
Sorted_Descending(S) ==
    IF S = {} THEN <<>>
    ELSE LET m == CHOOSE x \in S : \A y \in S \ {x} : PathLess(y, x)
         IN  <<m>> \o Sorted_Descending(S \ {m})

\* sorted(list(S))
RECURSIVE Sorted(_)
Sorted(S) ==
    IF S = {} THEN <<>>
    ELSE LET m == CHOOSE x \in S : \A y \in S \ {x} : PathLess(x, y)
         IN  <<m>> \o Sorted(S \ {m})

\* mutant: step 4 left out
DiscardVirtual_Keep(paths_to_create, p2u) == paths_to_create

\* parse, step 4: paths_to_create.discard(virtual_path) for every virtual container
DiscardVirtual(paths_to_create, p2u) == paths_to_create \ DictKeys(p2u)

\* HierarchyParser.parse on the triples _read_lines returned
parse(lines) ==
    LET c == Collect(lines)
        paths_to_create == WithAncestors(c.all_paths, c.path_to_uid)
        v == VirtualFrom(c.path_to_uid, 1, c.all_paths,
                         [external_children |-> <<>>, parent_uid_map |-> <<>>])
    IN  [paths |-> Sorted(DiscardVirtual(paths_to_create, c.path_to_uid)),
         external_children |-> v.external_children,
         cck_map |-> c.path_to_cck,
         parent_uid_map |-> v.parent_uid_map,
         path_to_uid |-> c.path_to_uid,
         all_paths |-> c.all_paths]

---------------------------------------------------------------------------
(* XMLGenerator *)

\* f"#_{x}"
Hash(x) == <<"#_">> \o x

\* the i-th value uuid4() returns in one run, as text
Uuid(i) == <<ToString(i)>>

\* mutant: an identifier derived from the node's name
_generate_id_FromName(path, i) == Hash(<<path[Len(path)]>>)

\* _generate_id: f"#_{uuid4()}", the path is only logged
_generate_id(path, i) == Hash(Uuid(i))

\* mutant: all_nodes = set(paths)
AllNodes_PathsOnly(ps) == Range(ps)

\* all_nodes: every prefix of every path
AllNodes(ps) == UNION {{Prefix(ps[n], i) : i \in 1..Len(ps[n])} : n \in 1..Len(ps)}

\* one step of the tree loop: parent = path[:i], child = path[:i+1]
Link(tree, nodes, parent, child) ==
    IF parent \in nodes /\ child \in nodes
    THEN LET known == IF DictHas(tree.children_map, parent)
                      THEN DictGet(tree.children_map, parent) ELSE <<>>
             kids == IF child \in Range(known) THEN known ELSE Append(known, child)
         IN  [children_map |-> DictSet(tree.children_map, parent, kids),
              parent_map |-> DictSet(tree.parent_map, child, parent)]
    ELSE tree

\* the tree loop: for path in paths: for i in range(1, len(path))
RECURSIVE BuildTreeFrom(_, _, _, _, _)
BuildTreeFrom(ps, n, i, nodes, tree) ==
    IF n > Len(ps) THEN tree
    ELSE IF i >= Len(ps[n]) THEN BuildTreeFrom(ps, n + 1, 1, nodes, tree)
    ELSE BuildTreeFrom(ps, n, i + 1, nodes,
                       Link(tree, nodes, Prefix(ps[n], i), Prefix(ps[n], i + 1)))

BuildTree(ps, nodes) ==
    BuildTreeFrom(ps, 1, 1, nodes, [children_map |-> <<>>, parent_map |-> <<>>])

\* id_map = {node: self._generate_id(node) for node in all_nodes}, the set iterated
\* in the order `order`
IdMap(order) ==
    [node \in Range(order) |->
        _generate_id(node, CHOOSE i \in 1..Len(order) : order[i] = node)]

Reverse(s) == [i \in 1..Len(s) |-> s[Len(s) + 1 - i]]

\* the iteration orders of a set of tuples the model distinguishes
IterOrders(S) == {Sorted(S), Reverse(Sorted(S))}

\* mutant: only a node with children is a container
ElementType_ByChildrenOnly(current, cmap) ==
    IF ~DictHas(cmap, current) \/ DictGet(cmap, current) = <<>>
    THEN "me:GenericPSR" ELSE "cim:AssetContainer"

\* element_type of the dequeued node
ElementType(current, cmap) ==
    LET is_leaf == ~DictHas(cmap, current) \/ DictGet(cmap, current) = <<>>
    IN  IF Len(current) = 1 THEN "cim:AssetContainer"
        ELSE IF is_leaf THEN "me:GenericPSR"
        ELSE "cim:AssetContainer"

\* mutant: the structural parent is looked up before parent_uid_map
ParentResource_StructuralFirst(current, parent_uid, pum, pmap, ids) ==
    IF Len(current) = 1 THEN <<parent_uid>>
    ELSE IF DictHas(pmap, current) /\ DictGet(pmap, current) \in DOMAIN ids
         THEN ids[DictGet(pmap, current)]
    ELSE IF DictHas(pum, current) THEN Hash(<<DictGet(pum, current)>>)
    ELSE <<parent_uid>>

\* parent_resource of the dequeued node
ParentResource(current, parent_uid, pum, pmap, ids) ==
    IF Len(current) = 1 THEN <<parent_uid>>
    ELSE IF DictHas(pum, current) THEN Hash(<<DictGet(pum, current)>>)
    ELSE IF DictHas(pmap, current) /\ DictGet(pmap, current) \in DOMAIN ids
         THEN ids[DictGet(pmap, current)]
    ELSE <<parent_uid>>

\* mutant: the back-reference of a leaf points at the root folder
BackFields_LeafToRoot(element_type, parent_resource, parent_uid) ==
    IF element_type = "cim:AssetContainer"
    THEN <<[tag |-> "cim:Asset.AssetContainer", resource |-> Hash(parent_resource)]>>
    ELSE <<[tag |-> "cim:PowerSystemResource.Assets", resource |-> Hash(<<parent_uid>>)]>>

\* the Assets line of the element
BackFields(element_type, parent_resource, parent_uid) ==
    IF element_type = "cim:AssetContainer"
    THEN <<[tag |-> "cim:Asset.AssetContainer", resource |-> Hash(parent_resource)]>>
    ELSE IF element_type = "me:GenericPSR"
    THEN <<[tag |-> "cim:PowerSystemResource.Assets", resource |-> Hash(parent_resource)]>>
    ELSE <<>>

\* mutant: every code is written under the container's tag
CodeFields_OneTag(current, element_type, cmap) ==
    IF DictHas(cmap, current) /\ DictGet(cmap, current) # ""
    THEN <<[tag |-> "me:IdentifiedObject.mRIDStr", text |-> DictGet(cmap, current)]>>
    ELSE <<>>

\* the code line of the element, if any
CodeFields(current, element_type, cmap) ==
    IF DictHas(cmap, current) /\ DictGet(cmap, current) # ""
    THEN IF element_type = "cim:AssetContainer"
         THEN <<[tag |-> "me:IdentifiedObject.mRIDStr", text |-> DictGet(cmap, current)]>>
         ELSE IF element_type = "me:GenericPSR"
         THEN <<[tag |-> "rh:PowerSystemResource.ccsCode", text |-> DictGet(cmap, current)]>>
         ELSE <<>>
    ELSE <<>>

\* the ChildObjects loop: the children referenced (and enqueued), in order
RECURSIVE ChildrenFrom(_, _, _, _, _)
ChildrenFrom(kids, i, ids, added_children, out) ==
    IF i > Len(kids) THEN out
    ELSE LET child == kids[i]
         IN  IF child \in DOMAIN ids /\ ids[child] \notin added_children
             THEN ChildrenFrom(kids, i + 1, ids, added_children \cup {ids[child]},
                               Append(out, child))
             ELSE ChildrenFrom(kids, i + 1, ids, added_children, out)

\* mutant: only the first child is referenced
ChildrenToAdd_FirstOnly(current, element_type, cmap, ids) ==
    IF element_type = "cim:AssetContainer" /\ DictHas(cmap, current)
    THEN ChildrenFrom(SubSeq(DictGet(cmap, current), 1, 1), 1, ids, {}, <<>>)
    ELSE <<>>

ChildrenToAdd(current, element_type, cmap, ids) ==
    IF element_type = "cim:AssetContainer" /\ DictHas(cmap, current)
    THEN ChildrenFrom(DictGet(cmap, current), 1, ids, {}, <<>>)
    ELSE <<>>

\* mutant: the external children of the node are referenced as well
ChildRefs_WithExternal(current, kids, ids, ext) ==
    [i \in 1..Len(kids) |-> Hash(ids[kids[i]])]
        \o (IF DictHas(ext, current)
            THEN [j \in 1..Len(DictGet(ext, current)) |->
                    Hash(Hash(<<DictGet(ext, current)[j]>>))]
            ELSE <<>>)

\* the ChildObjects lines of the element: one per child put in the queue; the
\* external_children argument ext is not read
ChildRefs(current, kids, ids, ext) == [i \in 1..Len(kids) |-> Hash(ids[kids[i]])]

\* the lines appended for one dequeued node, given the maps of the call
ElementOf(current, parent_uid, kids, cmap, pum, pmap, ids, cck, ext) ==
    LET element_type == ElementType(current, cmap)
        parent_resource == ParentResource(current, parent_uid, pum, pmap, ids)
    IN  [path |-> current,
         type |-> element_type,
         about |-> ids[current],
         name |-> current[Len(current)],
         parent |-> Hash(parent_resource),
         backs |-> BackFields(element_type, parent_resource, parent_uid),
         codes |-> CodeFields(current, element_type, cck),
         child_refs |-> ChildRefs(current, kids, ids, ext)]

\* the lines appended for one dequeued node
Element(current, parent_uid, kids) ==
    ElementOf(current, parent_uid, kids, children_map, parent_uid_map, parent_map,
              id_map, cck_map, external_children)

\* the while loop as a whole: the elements appended from the queue `queue` on
RECURSIVE EmitFrom(_, _, _, _)
EmitFrom(queue, done, lines, a) ==
    IF queue = <<>> THEN lines
    ELSE LET current == Head(queue)
             kids == ChildrenToAdd(current, ElementType(current, a.children_map),
                                   a.children_map, a.id_map)
         IN  IF current \in done THEN EmitFrom(Tail(queue), done, lines, a)
             ELSE EmitFrom(Tail(queue) \o kids, done \cup {current},
                           Append(lines,
                                  ElementOf(current, a.parent_uid, kids, a.children_map,
                                            a.parent_uid_map, a.parent_map, a.id_map,
                                            a.cck_map, a.external_children)),
                           a)

\* XMLGenerator.generate on non-empty paths as one function of its arguments and of
\* the iteration order of all_nodes: the elements and the identifier map
generate(ps, ext, parent_uid, cck, pum, order) ==
    LET nodes == AllNodes(ps)
        tree == BuildTree(ps, nodes)
        ids == IdMap(order)
    IN  [xml |-> EmitFrom(ps, {}, <<>>,
                          [parent_uid |-> parent_uid,
                           children_map |-> tree.children_map,
                           parent_map |-> tree.parent_map,
                           parent_uid_map |-> pum,
                           id_map |-> ids,
                           cck_map |-> cck,
                           external_children |-> ext]),
         ids |-> ids]

\* no *_modified file yet
NoFile == [status |-> "none", fieldnames |-> <<>>, lines |-> <<>>]

NoResult == [status |-> "none", xml |-> <<>>, ids |-> <<>>]

---------------------------------------------------------------------------
(* ConfigManager: a JSON value is a scalar (Leaf) or an object (Map), a dict *)

Leaf(t) == [kind |-> "leaf", text |-> t, items |-> <<>>]

Map(items) == [kind |-> "map", text |-> "", items |-> items]

NoValue == [kind |-> "none", text |-> "", items |-> <<>>]

\* _get_default_config, cut down to one section with two keys and one with one
DefaultConfig ==
    Map(<< <<"io", Map(<< <<"input_dir", Leaf("input")>>, <<"log_dir", Leaf("logs")>> >>)>>,
           <<"logging", Map(<< <<"level", Leaf("INFO")>> >>)>> >>)

\* mutant: a key of the file replaces the default of that key, whatever the values
RECURSIVE merge_Replace(_, _, _)
merge_Replace(a, b, i) ==
    IF i > Len(b) THEN a
    ELSE merge_Replace(DictSet(a, b[i][1], b[i][2]), b, i + 1)

\* _merge_with_defaults.merge(a, b), from the i-th item of b on
RECURSIVE merge(_, _, _)
merge(a, b, i) ==
    IF i > Len(b) THEN a
    ELSE LET key == b[i][1]
             value == b[i][2]
         IN  IF DictHas(a, key) /\ DictGet(a, key).kind = "map" /\ value.kind = "map"
             THEN merge(DictSet(a, key, Map(merge(DictGet(a, key).items, value.items, 1))),
                        b, i + 1)
             ELSE merge(DictSet(a, key, value), b, i + 1)

_merge_with_defaults(file) == Map(merge(DefaultConfig.items, file.items, 1))

\* ConfigManager.get, from the i-th key on: value[key] raises TypeError on a value
\* that is no dict and KeyError on a missing key; both give the default
RECURSIVE get(_, _, _, _)
get(value, keys, i, default) ==
    IF i > Len(keys) THEN [value |-> value, raised |-> "no"]
    ELSE IF value.kind # "map" THEN [value |-> default, raised |-> "no"]
    ELSE IF ~DictHas(value.items, keys[i]) THEN [value |-> default, raised |-> "no"]
    ELSE get(DictGet(value.items, keys[i]), keys, i + 1, default)

NoGet == [called |-> FALSE, key_path |-> <<>>, value |-> NoValue, raised |-> "no"]

\* the default the caller of get supplies
CallerDefault == Leaf("default")

\* the dicts with some of the keys ks, in that order, and values of V
RECURSIVE DictsOver(_, _)
DictsOver(ks, V) ==
    IF ks = <<>> THEN {<<>>}
    ELSE LET rest == DictsOver(Tail(ks), V)
         IN  rest \cup {<< <<Head(ks), v>> >> \o r : v \in V, r \in rest}

\* the keys of the config files and of the get calls
TopKeys == <<"io", "unknown">>

SubKeys == <<"log_dir", "unknown">>

CfgKeys == {"io", "log_dir", "unknown"}

\* the config files: objects of up to three levels
UserConfigs ==
    LET level3 == {Leaf("V")} \cup {Map(d) : d \in DictsOver(<<"unknown">>, {Leaf("V")})}
        level2 == {Leaf("V")} \cup {Map(d) : d \in DictsOver(SubKeys, level3)}
    IN  {Map(d) : d \in DictsOver(TopKeys, level2)}

\* logger names
LoggerNames == {"main", "temp"}

---------------------------------------------------------------------------
(* Inputs *)

\* path strings with blank segments: "\", "a\" (as in the parser's test data), "a\ \a"
BlankLines ==
    {<<Blank, Blank>>} \cup {<<s, Blank>> : s \in Segs} \cup {<<s, Blank, s>> : s \in Segs}

\* the path strings _read_lines keeps (non-empty after strip), split on the separator
Lines == {l \in (SeqUpTo(Segs, MaxLen) \cup BlankLines) : l # <<>> /\ l # <<Blank>>}

Records == Lines \X ({""} \cup Uids) \X ({""} \cup Codes)

Paths == SeqUpTo(Segs, MaxLen) \ {<<>>}

\* path strings over three segment names: a node with two children, a grandchild,
\* and a path with a repeated segment
TrioLines ==
    {<<"a">>, <<"a", "b">>, <<"a", "c">>, <<"a", "b", "c">>, <<"a", "a", "b">>}

TrioRecords == TrioLines \X ({""} \cup Uids) \X ({""} \cup Codes)

\* the values of the path column: "", " ", " \ ", and paths of up to two segments
CsvPaths == {<<>>, <<Blank>>, <<Blank, Blank>>} \cup (SeqUpTo(Segs, 2) \ {<<>>})

\* the values of the uid column, as pieces of text: "", " ", "U1"
CsvUids == {<<>>, <<Blank>>, <<"U1">>}

\* the rows csv.DictReader yields for a file with or without a uid column
CsvRows(has_uid) ==
    {IF has_uid THEN << <<"path", l>>, <<"uid", u>>, <<"code", c>> >>
                ELSE << <<"path", l>>, <<"code", c>> >> :
        l \in CsvPaths, u \in CsvUids, c \in {""} \cup Codes}

---------------------------------------------------------------------------
(* process_file: parse, then generate *)

csv_vars == <<rows, new_lines, fresh, csv_file>>

cfg_vars == <<user_config, _config, got>>

log_vars == <<calls, loggers, handlers>>

aux_vars == <<csv_vars, cfg_vars, log_vars>>

\* no file is being annotated
CsvIdle ==
    /\ rows = <<>>
    /\ new_lines = <<>>
    /\ fresh = 0
    /\ csv_file = NoFile

\* no ConfigManager
CfgIdle ==
    /\ user_config = NoValue
    /\ _config = NoValue
    /\ got = NoGet

\* no LoggerManager, no handler on any logger
LogIdle ==
    /\ calls = <<>>
    /\ loggers = <<>>
    /\ handlers = [n \in LoggerNames |-> <<>>]

AuxInit == CsvIdle /\ CfgIdle /\ LogIdle

Init ==
    /\ pc = "read"
    /\ records = <<>>
    /\ path_to_uid = <<>>
    /\ paths = <<>>
    /\ external_children = <<>>
    /\ cck_map = <<>>
    /\ parent_uid_map = <<>>
    /\ all_nodes = {}
    /\ children_map = <<>>
    /\ parent_map = <<>>
    /\ id_map = <<>>
    /\ processed = {}
    /\ q = <<>>
    /\ elements = <<>>
    /\ result = NoResult
    /\ AuxInit

gen_vars == <<all_nodes, children_map, parent_map, id_map, processed, q, elements, result>>

arg_vars == <<records, path_to_uid, paths, external_children, cck_map, parent_uid_map>>

\* _read_lines: one more row of the file, data.append((path, uid, cck_code))
ReadRow ==
    /\ pc = "read"
    /\ Len(records) < MaxRecords
    /\ \E row \in Records : records' = Append(records, row)
    /\ UNCHANGED aux_vars
    /\ UNCHANGED <<pc, path_to_uid, paths, external_children, cck_map, parent_uid_map,
                   gen_vars>>

\* the file is read: paths, external_children, cck_map, parent_uid_map = parser.parse()
Parse ==
    /\ pc = "read"
    /\ LET r == parse(records)
       IN  /\ paths' = r.paths
           /\ external_children' = r.external_children
           /\ cck_map' = r.cck_map
           /\ parent_uid_map' = r.parent_uid_map
           /\ path_to_uid' = r.path_to_uid
    /\ pc' = "parsed"
    /\ UNCHANGED aux_vars
    /\ UNCHANGED <<records, gen_vars>>

\* process_file: if not paths: return
NoData ==
    /\ pc = "parsed"
    /\ paths = <<>>
    /\ pc' = "nodata"
    /\ UNCHANGED aux_vars
    /\ UNCHANGED <<arg_vars, gen_vars>>

\* mutant: no paths give an empty document
GenerateFail_EmptyDocument ==
    /\ pc = "call"
    /\ paths = <<>>
    /\ pc' = "returned"
    /\ result' = [status |-> "ok", xml |-> <<>>, ids |-> <<>>]
    /\ UNCHANGED aux_vars
    /\ UNCHANGED <<arg_vars, all_nodes, children_map, parent_map, id_map, processed,
                   q, elements>>

\* generate: if not paths: raise ValueError
GenerateFail ==
    /\ pc = "call"
    /\ paths = <<>>
    /\ pc' = "raised"
    /\ result' = [status |-> "ValueError", xml |-> <<>>, ids |-> <<>>]
    /\ UNCHANGED aux_vars
    /\ UNCHANGED <<arg_vars, all_nodes, children_map, parent_map, id_map, processed,
                   q, elements>>

\* generate up to the while loop: all_nodes, the tree, id_map, the seeded queue
GenerateBegin ==
    /\ pc \in {"parsed", "call"}
    /\ paths # <<>>
    /\ LET nodes == AllNodes(paths)
           tree == BuildTree(paths, nodes)
       IN  /\ all_nodes' = nodes
           /\ children_map' = tree.children_map
           /\ parent_map' = tree.parent_map
           /\ \E order \in IterOrders(nodes) : id_map' = IdMap(order)
    /\ processed' = {}
    /\ q' = paths
    /\ elements' = <<>>
    /\ pc' = "loop"
    /\ UNCHANGED aux_vars
    /\ UNCHANGED <<arg_vars, result>>

\* mutant: a node already processed is processed again
DequeueSkip_EmitAgain ==
    /\ pc = "loop"
    /\ q # <<>>
    /\ Head(q) \in processed
    /\ LET current == Head(q)
           kids == ChildrenToAdd(current, ElementType(current, children_map),
                                 children_map, id_map)
       IN  /\ elements' = Append(elements, Element(current, RootUid, kids))
           /\ q' = Tail(q) \o kids
    /\ UNCHANGED aux_vars
    /\ UNCHANGED <<pc, arg_vars, all_nodes, children_map, parent_map, id_map, processed,
                   result>>

\* mutant: a node already processed is put back at the end of the queue
DequeueSkip_Requeue ==
    /\ pc = "loop"
    /\ q # <<>>
    /\ Head(q) \in processed
    /\ q' = Append(Tail(q), Head(q))
    /\ UNCHANGED aux_vars
    /\ UNCHANGED <<pc, arg_vars, all_nodes, children_map, parent_map, id_map, processed,
                   elements, result>>

\* one iteration of the while loop on a node already processed: continue
DequeueSkip ==
    /\ pc = "loop"
    /\ q # <<>>
    /\ Head(q) \in processed
    /\ q' = Tail(q)
    /\ UNCHANGED aux_vars
    /\ UNCHANGED <<pc, arg_vars, all_nodes, children_map, parent_map, id_map, processed,
                   elements, result>>

\* mutant: the children are put at the front of the queue
DequeueEmit_Stack ==
    /\ pc = "loop"
    /\ q # <<>>
    /\ Head(q) \notin processed
    /\ LET current == Head(q)
           kids == ChildrenToAdd(current, ElementType(current, children_map),
                                 children_map, id_map)
       IN  /\ processed' = processed \cup {current}
           /\ elements' = Append(elements, Element(current, RootUid, kids))
           /\ q' = kids \o Tail(q)
    /\ UNCHANGED aux_vars
    /\ UNCHANGED <<pc, arg_vars, all_nodes, children_map, parent_map, id_map, result>>

\* one iteration of the while loop that emits the dequeued node
DequeueEmit ==
    /\ pc = "loop"
    /\ q # <<>>
    /\ Head(q) \notin processed
    /\ LET current == Head(q)
           kids == ChildrenToAdd(current, ElementType(current, children_map),
                                 children_map, id_map)
       IN  /\ processed' = processed \cup {current}
           /\ elements' = Append(elements, Element(current, RootUid, kids))
           /\ q' = Tail(q) \o kids
    /\ UNCHANGED aux_vars
    /\ UNCHANGED <<pc, arg_vars, all_nodes, children_map, parent_map, id_map, result>>

\* the loop ends: return xml_content, path_to_generated_id
GenerateReturn ==
    /\ pc = "loop"
    /\ q = <<>>
    /\ result' = [status |-> "ok", xml |-> elements, ids |-> id_map]
    /\ pc' = "returned"
    /\ UNCHANGED aux_vars
    /\ UNCHANGED <<arg_vars, all_nodes, children_map, parent_map, id_map, processed,
                   q, elements>>

\* a direct call of generate: any paths, and maps with at most one key, a node of
\* the paths (no other key is ever looked up) or, with no paths, the path ("a",)
InitGen ==
    /\ pc = "call"
    /\ records = <<>>
    /\ path_to_uid = <<>>
    /\ \E n \in 0..MaxPaths : paths \in [1..n -> Paths]
    /\ \E m \in AllNodes(paths) \cup {<<>>} \cup (IF paths = <<>> THEN {<<"a">>} ELSE {}) :
          /\ parent_uid_map \in {<<>>} \cup {<< <<m, u>> >> : u \in {"U1"}}
          /\ cck_map \in {<<>>} \cup {<< <<m, c>> >> : c \in {""} \cup Codes}
          /\ external_children \in {<<>>, << <<m, <<"U2">> >> >>}
          /\ m = <<>> => parent_uid_map = <<>> /\ cck_map = <<>> /\ external_children = <<>>
    /\ all_nodes = {}
    /\ children_map = <<>>
    /\ parent_map = <<>>
    /\ id_map = <<>>
    /\ processed = {}
    /\ q = <<>>
    /\ elements = <<>>
    /\ result = NoResult
    /\ AuxInit

\* a code map that gives the code c to every path of ps
RECURSIVE CodeAll(_, _, _)
CodeAll(ps, c, acc) ==
    IF ps = <<>> THEN acc ELSE CodeAll(Tail(ps), c, DictSet(acc, Head(ps), c))

\* a direct call of generate with up to MaxWide paths, so that a node in paths can
\* have several children and occur several times; no virtual parents, and a code
\* map that is empty or gives every path of paths the same (possibly empty) code
InitWide ==
    /\ pc = "call"
    /\ records = <<>>
    /\ path_to_uid = <<>>
    /\ \E n \in 0..MaxWide : paths \in [1..n -> Paths]
    /\ parent_uid_map = <<>>
    /\ external_children = <<>>
    /\ cck_map \in {<<>>} \cup {CodeAll(paths, c, <<>>) : c \in {""} \cup Codes}
    /\ all_nodes = {}
    /\ children_map = <<>>
    /\ parent_map = <<>>
    /\ id_map = <<>>
    /\ processed = {}
    /\ q = <<>>
    /\ elements = <<>>
    /\ result = NoResult
    /\ AuxInit

---------------------------------------------------------------------------
(* process_file on a CSV file: _read_lines, parse, generate, _create_modified_csv *)

\* row.get(header, default)
RowGet(row, header, default) == IF DictHas(row, header) THEN DictGet(row, header) ELSE default

\* str.strip() on a path string: only "" and " " have nothing left
StripPath(l) == IF l = <<Blank>> THEN <<>> ELSE l

\* str.strip() on the text of the uid column
StripUid(u) == IF u = <<Blank>> THEN <<>> ELSE u

\* the uid text as the string _read_lines stores
UidString(u) == IF u = <<>> THEN "" ELSE u[1]

\* _read_lines, the row loop: the stripped triples of the rows that have a path
RECURSIVE _read_lines(_)
_read_lines(rs) ==
    IF rs = <<>> THEN <<>>
    ELSE LET row == Head(rs)
             path == StripPath(RowGet(row, "path", <<>>))
             uid == UidString(StripUid(RowGet(row, "uid", <<>>)))
             cck_code == Strip(RowGet(row, "code", ""))
         IN  IF path # <<>>
             THEN <<<<path, uid, cck_code>>>> \o _read_lines(Tail(rs))
             ELSE _read_lines(Tail(rs))

\* str.replace("#_", "")
RemoveHash(id) == SelectSeq(id, LAMBDA t : t # "#_")

\* one iteration of the row loop of _create_modified_csv: the row appended to
\* new_lines; k is the number of the next uuid4() call
AnnotatedRow(row, path_to_generated_id, k) ==
    LET path_str == StripPath(RowGet(row, "path", <<>>))
        parts == SplitParts(path_str)
        existing_uid == StripUid(RowGet(row, "uid", <<>>))
    IN  IF path_str # <<>>
        THEN IF existing_uid # <<>> THEN row
             ELSE IF parts \in DOMAIN path_to_generated_id
                  THEN DictSet(row, "uid", RemoveHash(path_to_generated_id[parts]))
                  ELSE DictSet(row, "uid", Uuid(k))
        ELSE row

\* uuid4() is called for a row with a path, no uid and no generated identifier
CallsUuid(row, path_to_generated_id) ==
    /\ StripPath(RowGet(row, "path", <<>>)) # <<>>
    /\ StripUid(RowGet(row, "uid", <<>>)) = <<>>
    /\ SplitParts(StripPath(RowGet(row, "path", <<>>))) \notin DOMAIN path_to_generated_id

\* list(new_lines[0].keys())
FieldNames(lines) == IF lines = <<>> THEN <<>> ELSE [j \in 1..Len(lines[1]) |-> lines[1][j][1]]

\* csv.DictWriter: a row with a key that is no field name raises ValueError
HasExtraField(row, fieldnames) == \E j \in 1..Len(row) : row[j][1] \notin Range(fieldnames)

\* csv.DictWriter: the row as written, a missing field as restval ""
WrittenRow(row, fieldnames) ==
    [j \in 1..Len(fieldnames) |-> <<fieldnames[j], RowGet(row, fieldnames[j], <<>>)>>]

\* a CSV file of up to MaxRows rows, read by _read_lines
InitFile ==
    /\ pc = "read"
    /\ \E has_uid \in BOOLEAN : \E n \in 0..MaxRows : rows \in [1..n -> CsvRows(has_uid)]
    /\ records = _read_lines(rows)
    /\ path_to_uid = <<>>
    /\ paths = <<>>
    /\ external_children = <<>>
    /\ cck_map = <<>>
    /\ parent_uid_map = <<>>
    /\ all_nodes = {}
    /\ children_map = <<>>
    /\ parent_map = <<>>
    /\ id_map = <<>>
    /\ processed = {}
    /\ q = <<>>
    /\ elements = <<>>
    /\ result = NoResult
    /\ new_lines = <<>>
    /\ fresh = 0
    /\ csv_file = NoFile
    /\ CfgIdle
    /\ LogIdle

\* _create_modified_csv, one iteration of `for row in original_lines`
AnnotateRow ==
    /\ pc = "returned"
    /\ Len(new_lines) < Len(rows)
    /\ LET row == rows[Len(new_lines) + 1]
           k == Cardinality(DOMAIN id_map) + fresh + 1
       IN  /\ new_lines' = Append(new_lines, AnnotatedRow(row, id_map, k))
           /\ fresh' = IF CallsUuid(row, id_map) THEN fresh + 1 ELSE fresh
    /\ UNCHANGED <<pc, arg_vars, gen_vars, rows, csv_file, cfg_vars, log_vars>>

\* _create_modified_csv, after the loop: the rows are written by a DictWriter whose
\* field names are the keys of the first row; writerows stops at the first row it
\* cannot write and the ValueError leaves process_file
WriteCsv ==
    /\ pc = "returned"
    /\ Len(new_lines) = Len(rows)
    /\ LET fieldnames == FieldNames(new_lines)
           bad == {i \in 1..Len(new_lines) : HasExtraField(new_lines[i], fieldnames)}
           stop == IF bad = {} THEN Len(new_lines) + 1
                   ELSE CHOOSE i \in bad : \A j \in bad : i <= j
       IN  /\ csv_file' = [status |-> IF bad = {} THEN "ok" ELSE "ValueError",
                           fieldnames |-> fieldnames,
                           lines |-> [i \in 1..(stop - 1) |->
                                        WrittenRow(new_lines[i], fieldnames)]]
           /\ pc' = IF bad = {} THEN "written" ELSE "raised"
    /\ UNCHANGED <<arg_vars, gen_vars, rows, new_lines, fresh, cfg_vars, log_vars>>

\* HierarchyParser on a file of up to MaxTrio records over three segment names
InitParse ==
    /\ pc = "read"
    /\ \E n \in 0..MaxTrio : records \in [1..n -> TrioRecords]
    /\ path_to_uid = <<>>
    /\ paths = <<>>
    /\ external_children = <<>>
    /\ cck_map = <<>>
    /\ parent_uid_map = <<>>
    /\ all_nodes = {}
    /\ children_map = <<>>
    /\ parent_map = <<>>
    /\ id_map = <<>>
    /\ processed = {}
    /\ q = <<>>
    /\ elements = <<>>
    /\ result = NoResult
    /\ AuxInit

NextFile ==
    \/ Parse
    \/ NoData
    \/ GenerateBegin
    \/ DequeueSkip
    \/ DequeueEmit
    \/ GenerateReturn
    \/ AnnotateRow
    \/ WriteCsv

SpecFile == InitFile /\ [][NextFile]_vars

---------------------------------------------------------------------------
(* ConfigManager *)

\* ConfigManager(config_path) on an existing file: self._config = self._load_config()
InitConfig ==
    /\ pc = "config"
    /\ user_config \in UserConfigs
    /\ _config = _merge_with_defaults(user_config)
    /\ got = NoGet
    /\ records = <<>>
    /\ path_to_uid = <<>>
    /\ paths = <<>>
    /\ external_children = <<>>
    /\ cck_map = <<>>
    /\ parent_uid_map = <<>>
    /\ all_nodes = {}
    /\ children_map = <<>>
    /\ parent_map = <<>>
    /\ id_map = <<>>
    /\ processed = {}
    /\ q = <<>>
    /\ elements = <<>>
    /\ result = NoResult
    /\ CsvIdle
    /\ LogIdle

\* config.get(key_path, default) with key_path = ".".join(keys)
Get ==
    /\ pc = "config"
    /\ \E keys \in SeqUpTo(CfgKeys, MaxKeys) \ {<<>>} :
          LET r == get(_config, keys, 1, CallerDefault)
          IN  got' = [called |-> TRUE, key_path |-> keys, value |-> r.value,
                      raised |-> r.raised]
    /\ UNCHANGED <<pc, arg_vars, gen_vars, csv_vars, user_config, _config, log_vars>>

NextConfig == Get

SpecConfig == InitConfig /\ [][NextConfig]_vars

---------------------------------------------------------------------------
(* LoggerManager; logging.getLogger(name) is the one logger of that name, so a
   logger is identified by its name *)

\* dict.pop(k)
DictPop(d, k) == SelectSeq(d, LAMBDA item : item[1] # k)

\* the handlers create_logger adds to a new logger
NewHandlers(log_file_path, ui_callback) ==
    <<"StreamHandler">>
        \o (IF log_file_path THEN <<"FileLogHandler">> ELSE <<>>)
        \o (IF ui_callback THEN <<"UILogHandler">> ELSE <<>>)

\* mutant: a registered name is set up again
create_logger_Again(reg, hs, name, log_file_path, ui_callback) ==
    [loggers |-> DictSet(reg, name, name),
     handlers |-> [hs EXCEPT ![name] = NewHandlers(log_file_path, ui_callback)],
     value |-> name]

\* LoggerManager.create_logger
create_logger(reg, hs, name, log_file_path, ui_callback) ==
    IF DictHas(reg, name)
    THEN [loggers |-> reg, handlers |-> hs, value |-> DictGet(reg, name)]
    ELSE LET logger == name
         IN  [loggers |-> DictSet(reg, name, logger),
              handlers |-> [hs EXCEPT ![logger] = NewHandlers(log_file_path, ui_callback)],
              value |-> logger]

\* LoggerManager.remove_logger
remove_logger(reg, hs, name) ==
    IF DictHas(reg, name)
    THEN [loggers |-> DictPop(reg, name),
          handlers |-> [hs EXCEPT ![DictGet(reg, name)] = <<>>],
          value |-> "True"]
    ELSE [loggers |-> reg, handlers |-> hs, value |-> "False"]

\* LoggerManager.cleanup_all_loggers
cleanup_all_loggers(reg, hs) ==
    [loggers |-> <<>>,
     handlers |-> [n \in DOMAIN hs |->
                     IF \E i \in 1..Len(reg) : reg[i][2] = n THEN <<>> ELSE hs[n]],
     value |-> "None"]

\* LoggerManager(): an empty registry; a logger of the logging module may already
\* have a handler that something else added
InitLogger ==
    /\ pc = "logger"
    /\ calls = <<>>
    /\ loggers = <<>>
    /\ handlers \in [LoggerNames -> {<<>>, <<"other">>}]
    /\ records = <<>>
    /\ path_to_uid = <<>>
    /\ paths = <<>>
    /\ external_children = <<>>
    /\ cck_map = <<>>
    /\ parent_uid_map = <<>>
    /\ all_nodes = {}
    /\ children_map = <<>>
    /\ parent_map = <<>>
    /\ id_map = <<>>
    /\ processed = {}
    /\ q = <<>>
    /\ elements = <<>>
    /\ result = NoResult
    /\ CsvIdle
    /\ CfgIdle

Called(op, name, log_file_path, ui_callback, r) ==
    /\ calls' = Append(calls, [op |-> op, name |-> name, file |-> log_file_path,
                               ui |-> ui_callback, value |-> r.value])
    /\ loggers' = r.loggers
    /\ handlers' = r.handlers
    /\ UNCHANGED <<pc, arg_vars, gen_vars, csv_vars, cfg_vars>>

CreateLogger ==
    /\ pc = "logger"
    /\ Len(calls) < MaxCalls
    /\ \E name \in LoggerNames : \E log_file_path \in BOOLEAN : \E ui_callback \in BOOLEAN :
          Called("create", name, log_file_path, ui_callback,
                 create_logger(loggers, handlers, name, log_file_path, ui_callback))

RemoveLogger ==
    /\ pc = "logger"
    /\ Len(calls) < MaxCalls
    /\ \E name \in LoggerNames :
          Called("remove", name, FALSE, FALSE, remove_logger(loggers, handlers, name))

CleanupAllLoggers ==
    /\ pc = "logger"
    /\ Len(calls) < MaxCalls
    /\ Called("cleanup", "", FALSE, FALSE, cleanup_all_loggers(loggers, handlers))

NextLogger ==
    \/ CreateLogger
    \/ RemoveLogger
    \/ CleanupAllLoggers

SpecLogger == InitLogger /\ [][NextLogger]_vars

Next ==
    \/ ReadRow
    \/ Parse
    \/ NoData
    \/ GenerateBegin
    \/ DequeueSkip
    \/ DequeueEmit
    \/ GenerateReturn

Spec == Init /\ [][Next]_vars

NextGen ==
    \/ GenerateFail
    \/ GenerateBegin
    \/ DequeueSkip
    \/ DequeueEmit
    \/ GenerateReturn

SpecGen == InitGen /\ [][NextGen]_vars

SpecWide == InitWide /\ [][NextGen]_vars

\* one iteration of the while loop, or leaving it
Loop ==
    \/ DequeueSkip
    \/ DequeueEmit
    \/ GenerateReturn

\* the loop runs: generate is one thread of control, so an iteration that can be
\* taken is taken
SpecWideFair == InitWide /\ [][NextGen]_vars /\ WF_vars(Loop)

NextParse == Parse

SpecParse == InitParse /\ [][NextParse]_vars

---------------------------------------------------------------------------
(* Vocabulary of the properties *)

\* the normalized path a record names (<<>> when it names none)
NormOf(rec) == _normalize_path(SplitParts(rec[1]))

\* the records that name a path
NamingRecords == {i \in 1..Len(records) : NormOf(records[i]) # <<>>}

\* the normalized paths of the records
RawPaths == {NormOf(records[i]) : i \in NamingRecords}

\* the paths that carry a non-empty external id in at least one record
VirtualPaths == {NormOf(records[i]) : i \in {j \in NamingRecords : records[j][2] # ""}}

\* the external id of the virtual container V: the one of the last record that
\* names V with a non-empty external id
VirtualId(V) ==
    LET named == {j \in NamingRecords : NormOf(records[j]) = V /\ records[j][2] # ""}
    IN  records[CHOOSE j \in named : \A l \in named : l <= j][2]

\* the virtual containers that have the non-virtual parent path P
VirtualChildren(P) ==
    {V \in VirtualPaths : Len(V) > 1 /\ Prefix(V, Len(V) - 1) = P /\ P \notin VirtualPaths}

\* the positions of the elements emitted for path p
ElementsOf(p) == {i \in 1..Len(elements) : elements[i].path = p}

\* C is an immediate child of V
ChildOf(C, V) == Len(C) = Len(V) + 1 /\ Prefix(C, Len(V)) = V

\* a reference, as generate writes it, to the external id or root uid u
RefToUid(u) == Hash(Hash(<<u>>))

RootRef == Hash(<<RootUid>>)

\* a reference, as generate writes it, to the generated identifier id
RefToId(id) == Hash(id)

\* p has no two consecutive equal segments
NoRepeat(p) == \A i \in 1..(Len(p) - 1) : p[i] # p[i + 1]

\* p comes before r in lexicographic order: they agree up to some position where p
\* ends or has the smaller segment
LexLess(p, r) ==
    \E k \in 1..Len(r) :
        /\ \A j \in 1..(k - 1) : j <= Len(p) /\ p[j] = r[j]
        /\ \/ k = Len(p) + 1
           \/ k <= Len(p) /\ SegRank(p[k]) < SegRank(r[k])

\* the structural children of node N: the nodes of all_nodes one segment longer
StructuralChildren(N) == {c \in all_nodes : ChildOf(c, N)}

\* where the key path keys leads in the JSON value, if anywhere
RECURSIVE ResolveFrom(_, _, _)
ResolveFrom(value, keys, i) ==
    IF i > Len(keys) THEN [found |-> TRUE, value |-> value]
    ELSE IF value.kind = "map" /\ DictHas(value.items, keys[i])
         THEN ResolveFrom(DictGet(value.items, keys[i]), keys, i + 1)
         ELSE [found |-> FALSE, value |-> NoValue]

Resolve(value, keys) == ResolveFrom(value, keys, 1)

\* a proper prefix of the key path leads to a value of the file that is no mapping
FileLeafOnPath(keys) ==
    \E i \in 1..(Len(keys) - 1) :
        LET r == Resolve(user_config, Prefix(keys, i))
        IN  r.found /\ r.value.kind = "leaf"

\* call j of cs takes name n out of the registry
Removes(cs, j, n) == (cs[j].op = "remove" /\ cs[j].name = n) \/ cs[j].op = "cleanup"

\* the calls of cs that created name n and were not followed by its removal
LiveCreates(cs, n) ==
    {i \in 1..Len(cs) : /\ cs[i].op = "create" /\ cs[i].name = n
                        /\ \A j \in (i + 1)..Len(cs) : ~Removes(cs, j, n)}

\* the names created and not removed since
Live(cs) == {n \in LoggerNames : LiveCreates(cs, n) # {}}

\* the call that registered the live name n: the first create since its last removal
Registering(cs, n) == CHOOSE i \in LiveCreates(cs, n) : \A j \in LiveCreates(cs, n) : i <= j

Parsed == pc # "read"

\* the external_children arguments a call on nodes N is compared with
ExternalChoices(N) ==
    {<<>>} \cup {<< <<n, l>> >> : n \in N, l \in {<<"U1">>, <<"U2", "U1">>}}

\* reference r with the generated identifiers of ids1 replaced by those of ids2
Renamed(r, ids1, ids2) ==
    IF \E n \in DOMAIN ids1 : r = RefToId(ids1[n])
    THEN RefToId(ids2[CHOOSE n \in DOMAIN ids1 : r = RefToId(ids1[n])])
    ELSE r

\* two documents with the same elements up to the renaming of generated identifiers
SameDocument(xml1, ids1, xml2, ids2) ==
    /\ Len(xml1) = Len(xml2)
    /\ DOMAIN ids1 = DOMAIN ids2
    /\ \A i \in 1..Len(xml1) :
          LET e1 == xml1[i]
              e2 == xml2[i]
          IN  /\ e1.path = e2.path /\ e1.type = e2.type /\ e1.name = e2.name
              /\ e1.about = ids1[e1.path] /\ e2.about = ids2[e2.path]
              /\ e2.parent = Renamed(e1.parent, ids1, ids2)
              /\ Len(e1.backs) = Len(e2.backs)
              /\ \A k \in 1..Len(e1.backs) :
                    /\ e2.backs[k].tag = e1.backs[k].tag
                    /\ e2.backs[k].resource = Renamed(e1.backs[k].resource, ids1, ids2)
              /\ e1.codes = e2.codes
              /\ Len(e1.child_refs) = Len(e2.child_refs)
              /\ \A k \in 1..Len(e1.child_refs) :
                    e2.child_refs[k] = Renamed(e1.child_refs[k], ids1, ids2)

\* the elements of s in the order of their first occurrence
RECURSIVE FirstOccurrences(_)
FirstOccurrences(s) ==
    IF s = <<>> THEN <<>>
    ELSE LET front == FirstOccurrences(SubSeq(s, 1, Len(s) - 1))
         IN  IF s[Len(s)] \in Range(front) THEN front ELSE Append(front, s[Len(s)])

\* s is the beginning of t
IsPrefix(s, t) == Len(s) <= Len(t) /\ SubSeq(t, 1, Len(s)) = s

\* the child references written so far, in the order of the document: one per
\* q.put(child)
RECURSIVE EnqueuedRefs(_)
EnqueuedRefs(es) ==
    IF es = <<>> THEN <<>>
    ELSE EnqueuedRefs(SubSeq(es, 1, Len(es) - 1)) \o es[Len(es)].child_refs

\* the references to the nodes that are not in paths
OutsideRefs == {RefToId(id_map[n]) : n \in all_nodes \ Range(paths)}

---------------------------------------------------------------------------
(* Properties *)

\* C1 (virtual exclusion): no path that carries a non-empty external id in at least
\* one record is in the materialized-path sequence parse returns, whatever other
\* records name the same normalized path and in whatever order.
C1_VirtualExclusion ==
    Parsed => \A i \in NamingRecords :
                 records[i][2] # "" => NormOf(records[i]) \notin Range(paths)

\* C1 witness: parse has run on two records naming the same normalized path, the
\* first with an external id and the second without, and something is materialized.
C1_Witness ==
    /\ pc = "parsed"
    /\ Len(records) = 2
    /\ NormOf(records[1]) = NormOf(records[2])
    /\ Len(NormOf(records[1])) = 2
    /\ records[1][2] # "" /\ records[2][2] = ""
    /\ paths # <<>>

\* C2 (a virtual container is never materialized), as claimed: after parse and
\* generate the document holds exactly one element per materialized path and no
\* element whose path carried an external id.
C2_VirtualNeverEmitted ==
    pc = "returned" =>
        /\ \A p \in Range(paths) : Cardinality(ElementsOf(p)) = 1
        /\ \A i \in 1..Len(elements) : elements[i].path \notin VirtualPaths

C4_VirtualParentCoverage ==
    Parsed => \A k \in 1..Len(path_to_uid) :
                 \A C \in RawPaths \cup Range(paths) :
                    ChildOf(C, path_to_uid[k][1]) =>
                        /\ DictHas(parent_uid_map, C)
                        /\ DictGet(parent_uid_map, C) = path_to_uid[k][2]

\* C5 (ancestor completeness): every strict non-empty prefix of every materialized
\* path is a virtual container or is itself materialized.
C5_AncestorCompleteness ==
    Parsed => \A n \in 1..Len(paths) : \A i \in 1..(Len(paths[n]) - 1) :
                 \/ _normalize_path(Prefix(paths[n], i)) \in VirtualPaths
                 \/ _normalize_path(Prefix(paths[n], i)) \in Range(paths)

\* C5 witness: a path of depth 3 is materialized whose two strict prefixes are
\* named by no record and are materialized too.
C5_Witness ==
    /\ pc = "parsed"
    /\ \E n \in 1..Len(paths) :
          /\ Len(paths[n]) = 3
          /\ \A i \in 1..2 : /\ Prefix(paths[n], i) \notin RawPaths
                             /\ Prefix(paths[n], i) \in Range(paths)

\* C6 (resolved parent of non-overridden nodes), as claimed: after parse and
\* generate, an emitted node that is no key of virtual_parent_map refers to the
\* generated identifier of its longest materialized proper prefix, and to the
\* root reference when no proper prefix is materialized.
C6_StructuralParent ==
    pc = "returned" =>
        \A i \in 1..Len(elements) :
            LET e == elements[i]
                mat == {j \in 1..(Len(e.path) - 1) : Prefix(e.path, j) \in Range(paths)}
                longest == CHOOSE j \in mat : \A l \in mat : l <= j
            IN  ~DictHas(parent_uid_map, e.path) =>
                    IF mat = {} THEN e.parent = RootRef
                    ELSE e.parent = RefToId(id_map[Prefix(e.path, longest)])

\* C7 (identifier map completeness): the keys of the identifier map generate
\* returns are exactly the prefixes, of every length from 1, of the paths given,
\* each with one identifier; every path given is a key.
C7_IdMapCompleteness ==
    result.status = "ok" =>
        /\ \A k \in DOMAIN result.ids :
              \E n \in 1..Len(paths) : \E i \in 1..Len(paths[n]) : k = Prefix(paths[n], i)
        /\ \A n \in 1..Len(paths) : \A i \in 1..Len(paths[n]) :
              /\ Prefix(paths[n], i) \in DOMAIN result.ids
              /\ \E u \in 1..Cardinality(DOMAIN result.ids) :
                    result.ids[Prefix(paths[n], i)] = Hash(Uuid(u))
        /\ Range(paths) \subseteq DOMAIN result.ids

\* C7 witness: generate returned a map for paths of which some proper prefix is
\* not itself among the paths.
C7_Witness ==
    /\ result.status = "ok"
    /\ \E n \in 1..Len(paths) : \E i \in 1..(Len(paths[n]) - 1) :
          Prefix(paths[n], i) \notin Range(paths)

\* C8 (identifier uniqueness): in one generate call two distinct nodes never get
\* the same identifier, and the identifier of each emitted element is the map
\* value of its path.
C8_IdUniqueness ==
    /\ \A m, n \in DOMAIN id_map : m # n => id_map[m] # id_map[n]
    /\ \A i \in 1..Len(elements) : elements[i].about = id_map[elements[i].path]

\* C8 witness: identifiers were generated for two nodes with the same name and an
\* element was emitted.
C8_Witness ==
    /\ elements # <<>>
    /\ \E m, n \in DOMAIN id_map : m # n /\ m[Len(m)] = n[Len(n)]

\* C9 (empty paths): generate called with no paths raises before producing
\* anything: no document, no identifier map, no identifier, whatever the maps are.
C9_EmptyPathsFail ==
    (paths = <<>> /\ pc # "call") =>
        /\ pc = "raised"
        /\ result.status = "ValueError"
        /\ result.xml = <<>> /\ result.ids = <<>>
        /\ id_map = <<>> /\ elements = <<>>

\* C9 witness: generate was called with no paths and non-empty maps, and has ended.
C9_Witness ==
    /\ pc # "call"
    /\ paths = <<>>
    /\ parent_uid_map # <<>> /\ cck_map # <<>> /\ external_children # <<>>

\* the records that name a path: the others have no segment left after strip
NamingOnly == SelectSeq(records, LAMBDA rec : \E j \in 1..Len(rec[1]) : rec[1][j] \in Segs)

\* C10 (blank records): a record with no non-empty segment contributes nothing to
\* any output of parse, whatever its external id and code; no records, or only such
\* records, give an empty path sequence and three empty maps, and parse returns.
C10_BlankRecordsIgnored ==
    Parsed =>
        /\ LET r == parse(NamingOnly)
           IN  /\ paths = r.paths
               /\ external_children = r.external_children
               /\ cck_map = r.cck_map
               /\ parent_uid_map = r.parent_uid_map
        /\ NamingOnly = <<>> =>
              /\ paths = <<>> /\ external_children = <<>>
              /\ cck_map = <<>> /\ parent_uid_map = <<>>
        /\ \A p \in Range(paths) \cup DictKeys(external_children)
                   \cup DictKeys(cck_map) \cup DictKeys(parent_uid_map) : p # <<>>

\* C10 witness: parse has returned on a record without segments that carries an
\* external id and a code, followed by a record that names a path.
C10_Witness ==
    /\ pc = "parsed"
    /\ Len(records) = 2
    /\ SplitParts(records[1][1]) = <<>>
    /\ records[1][2] # "" /\ records[1][3] # ""
    /\ paths # <<>>

\* C11 (normalization idempotence): for the segment sequence of every record, and
\* every prefix of it, normalizing twice equals normalizing once, the result has no
\* two consecutive equal segments, and a sequence without two consecutive equal
\* segments is returned unchanged.
C11_NormalizationIdempotent ==
    \A i \in 1..Len(records) :
        LET parts == SplitParts(records[i][1])
        IN  \A k \in 0..Len(parts) :
               LET p == Prefix(parts, k)
               IN  /\ _normalize_path(_normalize_path(p)) = _normalize_path(p)
                   /\ NoRepeat(_normalize_path(p))
                   /\ NoRepeat(p) => _normalize_path(p) = p

\* C11 witness: parse has run on a record of three segments, all equal, and on a
\* record of three segments without a repetition; both normalized paths are
\* materialized.
C11_Witness ==
    /\ pc = "parsed"
    /\ Len(records) = 2
    /\ LET p == SplitParts(records[1][1])
           r == SplitParts(records[2][1])
       IN  /\ Len(p) = 3 /\ p[1] = p[2] /\ p[2] = p[3]
           /\ Len(r) = 3 /\ NoRepeat(r)
           /\ <<p[1]>> \in Range(paths)
           /\ r \in Range(paths)

\* C12 (normalization invariant on outputs): after parse, every materialized path
\* and every key of external_children, code_map and virtual_parent_map is non-empty
\* and has no two consecutive identical segments.
C12_OutputsNormalized ==
    Parsed =>
        \A p \in Range(paths) \cup DictKeys(external_children)
                 \cup DictKeys(cck_map) \cup DictKeys(parent_uid_map) :
            p # <<>> /\ NoRepeat(p)

\* C12 witness: parse has run on a record with a repeated segment that carries an
\* external id and a code, and on a record naming a child of that path; the three
\* maps have a key each and an ancestor obtained by truncation is materialized.
C12_Witness ==
    /\ pc = "parsed"
    /\ Len(records) = 2
    /\ ~NoRepeat(SplitParts(records[1][1]))
    /\ records[1][2] # "" /\ records[1][3] # ""
    /\ external_children # <<>> /\ cck_map # <<>> /\ parent_uid_map # <<>>
    /\ \E p \in Range(paths) : p \notin RawPaths

\* C13 (sorted materialized paths): the path sequence parse returns is strictly
\* increasing in lexicographic order, so it is sorted and holds no path twice.
C13_PathsStrictlyIncreasing ==
    Parsed => \A i \in 1..Len(paths) : \A j \in 1..Len(paths) :
                 i < j => LexLess(paths[i], paths[j])

\* C13 witness: parse has run on two different records that normalize to the same
\* path of depth 2, the longer segment sequence first, and returned two paths.
C13_Witness ==
    /\ pc = "parsed"
    /\ Len(records) = 2
    /\ SplitParts(records[1][1]) # SplitParts(records[2][1])
    /\ Len(SplitParts(records[1][1])) > Len(SplitParts(records[2][1]))
    /\ NormOf(records[1]) = NormOf(records[2])
    /\ Len(paths) = 2

\* C14 (element classification): every emitted node is a cim:AssetContainer exactly
\* when its depth is 1 or it has a structural child, a me:GenericPSR exactly when
\* its depth is greater than 1 and it has none, and no node is emitted in both forms.
C14_Classification ==
    /\ \A i \in 1..Len(elements) :
          LET e == elements[i]
              has_child == StructuralChildren(e.path) # {}
          IN  /\ e.type = "cim:AssetContainer" <=> (Len(e.path) = 1 \/ has_child)
              /\ e.type = "me:GenericPSR" <=> (Len(e.path) > 1 /\ ~has_child)
    /\ \A i \in 1..Len(elements) : \A j \in 1..Len(elements) :
          elements[i].path = elements[j].path => elements[i].type = elements[j].type

\* C14 witness: generate has returned a document with a node of depth 1 without
\* children, a node of depth greater than 1 with a child, and a node of depth
\* greater than 1 without children.
C14_Witness ==
    /\ pc = "returned"
    /\ \E i \in 1..Len(elements) :
          Len(elements[i].path) = 1 /\ StructuralChildren(elements[i].path) = {}
    /\ \E i \in 1..Len(elements) :
          Len(elements[i].path) > 1 /\ StructuralChildren(elements[i].path) # {}
    /\ \E i \in 1..Len(elements) :
          Len(elements[i].path) > 1 /\ StructuralChildren(elements[i].path) = {}

\* C15 (back-reference consistency): every emitted element has exactly one
\* back-reference field, cim:Asset.AssetContainer for a container and
\* cim:PowerSystemResource.Assets for a leaf, whose value is the value of the
\* element's parent-reference field.
C15_BackReference ==
    \A i \in 1..Len(elements) :
        LET e == elements[i]
        IN  /\ Len(e.backs) = 1
            /\ e.type = "cim:AssetContainer" => e.backs[1].tag = "cim:Asset.AssetContainer"
            /\ e.type = "me:GenericPSR" => e.backs[1].tag = "cim:PowerSystemResource.Assets"
            /\ e.backs[1].resource = e.parent

\* C15 witness: generate has returned a document with a container and a leaf whose
\* parent references are generated identifiers, not the root reference.
C15_Witness ==
    /\ pc = "returned"
    /\ \E i \in 1..Len(elements) : \E j \in 1..Len(elements) :
          /\ elements[i].type = "cim:AssetContainer"
          /\ elements[j].type = "me:GenericPSR"
          /\ elements[i].parent # RootRef
          /\ elements[j].parent # RootRef

\* C16 (code annotation tags): an emitted element carries a code field exactly when
\* its path has a non-empty entry in code_map; it then carries one field, with that
\* code, under me:IdentifiedObject.mRIDStr for a container and under
\* rh:PowerSystemResource.ccsCode for a leaf.
C16_CodeTags ==
    \A i \in 1..Len(elements) :
        LET e == elements[i]
            coded == DictHas(cck_map, e.path) /\ DictGet(cck_map, e.path) # ""
        IN  /\ e.codes # <<>> <=> coded
            /\ coded =>
                  /\ Len(e.codes) = 1
                  /\ e.codes[1].text = DictGet(cck_map, e.path)
                  /\ e.type = "cim:AssetContainer" =>
                        e.codes[1].tag = "me:IdentifiedObject.mRIDStr"
                  /\ e.type = "me:GenericPSR" =>
                        e.codes[1].tag = "rh:PowerSystemResource.ccsCode"

\* C16 witness: generate has returned a document with a container that has a code,
\* a leaf that has a code, and an element whose path has no entry in code_map.
C16_Witness ==
    /\ pc = "returned"
    /\ \E i \in 1..Len(elements) :
          elements[i].type = "cim:AssetContainer" /\ elements[i].codes # <<>>
    /\ \E i \in 1..Len(elements) :
          elements[i].type = "me:GenericPSR" /\ elements[i].codes # <<>>
    /\ \E i \in 1..Len(elements) : ~DictHas(cck_map, elements[i].path)

\* C16 witness for the empty code: an element was emitted whose path has an empty
\* entry in code_map.
C16_EmptyCodeEmitted ==
    \E i \in 1..Len(elements) :
        DictHas(cck_map, elements[i].path) /\ DictGet(cck_map, elements[i].path) = ""

\* C17 (child references): every container element has exactly one child-reference
\* field per structural child of its node, each a reference to that child's
\* generated identifier, and no child twice; a leaf element has none.
C17_ChildReferences ==
    \A i \in 1..Len(elements) :
        LET e == elements[i]
        IN  IF e.type = "cim:AssetContainer"
            THEN /\ Range(e.child_refs) =
                       {RefToId(id_map[c]) : c \in StructuralChildren(e.path)}
                 /\ Len(e.child_refs) = Cardinality(StructuralChildren(e.path))
            ELSE e.child_refs = <<>>

\* C17 witness: generate has returned a document with a leaf, a container that has
\* two structural children, and a container one of whose children lies on two of the
\* paths, so that the tree loop met that child twice.
C17_Witness ==
    /\ pc = "returned"
    /\ \E i \in 1..Len(elements) :
          /\ elements[i].type = "cim:AssetContainer"
          /\ Cardinality(StructuralChildren(elements[i].path)) = 2
    /\ \E i \in 1..Len(elements) :
          /\ elements[i].type = "cim:AssetContainer"
          /\ \E c \in StructuralChildren(elements[i].path) :
                Cardinality({n \in 1..Len(paths) :
                               /\ Len(paths[n]) > Len(c)
                               /\ Prefix(paths[n], Len(c)) = c}) = 2
    /\ \E i \in 1..Len(elements) : elements[i].type = "me:GenericPSR"

\* C18 (back-annotation of the input records), as claimed, a column counting as
\* empty when nothing is left of it after strip (which is how the code reads it):
\* when _create_modified_csv is over, the file holds the rows of the input in the
\* same number and order with the same path and code; a row that had an identifier
\* keeps it, and a row with a path and no identifier has a non-empty one.
C18_BackAnnotation ==
    csv_file.status # "none" =>
        /\ Len(csv_file.lines) = Len(rows)
        /\ \A i \in 1..Len(rows) :
              LET old == rows[i]
                  new == csv_file.lines[i]
                  had_uid == StripUid(RowGet(old, "uid", <<>>)) # <<>>
                  has_path == StripPath(RowGet(old, "path", <<>>)) # <<>>
              IN  /\ DictHas(new, "path") /\ DictGet(new, "path") = DictGet(old, "path")
                  /\ DictHas(new, "code") /\ DictGet(new, "code") = DictGet(old, "code")
                  /\ had_uid => RowGet(new, "uid", <<>>) = DictGet(old, "uid")
                  /\ (has_path /\ ~had_uid) => RowGet(new, "uid", <<>>) # <<>>

\* C19 (ConfigManager.get), as claimed: get raises nothing and returns the file's
\* value for a key path present in the file, the built-in default for a key path
\* absent from the file but present in the defaults, and the caller's default for a
\* key path found in neither.
C19_GetAsClaimed ==
    got.called =>
        LET f == Resolve(user_config, got.key_path)
            d == Resolve(DefaultConfig, got.key_path)
        IN  /\ got.raised = "no"
            /\ f.found => got.value = f.value
            /\ (~f.found /\ d.found) => got.value = d.value
            /\ (~f.found /\ ~d.found) => got.value = CallerDefault

\* C19 amended: get raises nothing; a key path that leads to a non-mapping value of
\* the file returns that value; one that leads to a mapping of the file returns a
\* mapping with the keys of the file's mapping and, when the defaults have a mapping
\* at the same path, the keys of that one too; a key path absent from the file but
\* present in the defaults returns the default, unless a proper prefix of it has a
\* non-mapping value in the file; that case and a key path found in neither return
\* the caller's default.
C19_Get ==
    got.called =>
        LET f == Resolve(user_config, got.key_path)
            d == Resolve(DefaultConfig, got.key_path)
            default_keys == IF d.found /\ d.value.kind = "map"
                            THEN DictKeys(d.value.items) ELSE {}
        IN  /\ got.raised = "no"
            /\ (f.found /\ f.value.kind = "leaf") => got.value = f.value
            /\ (f.found /\ f.value.kind = "map") =>
                  /\ got.value.kind = "map"
                  /\ DictKeys(got.value.items) = DictKeys(f.value.items) \cup default_keys
            /\ (~f.found /\ d.found) =>
                  got.value = IF FileLeafOnPath(got.key_path) THEN CallerDefault
                              ELSE d.value
            /\ (~f.found /\ ~d.found) => got.value = CallerDefault

\* C19 witness: get("io") was called on a file whose "io" section has the one key
\* "unknown", and returned a mapping that also has the default key "log_dir".
C19_Witness ==
    /\ got.called
    /\ got.key_path = <<"io">>
    /\ Resolve(user_config, <<"io">>).found
    /\ Resolve(user_config, <<"io">>).value.kind = "map"
    /\ DictKeys(Resolve(user_config, <<"io">>).value.items) = {"unknown"}
    /\ got.value.kind = "map"
    /\ {"log_dir", "unknown"} \subseteq DictKeys(got.value.items)

C20_TwoRegistered ==
    /\ Len(calls) = 3
    /\ Len(loggers) = 2
    /\ calls[1].op = "create" /\ calls[2].op = "create" /\ calls[3].op = "create"
    /\ calls[2].name = calls[1].name
    /\ calls[2].file # calls[1].file

\* C21 (at-most-once processing): in a generate call no path is emitted as an element
\* more than once, and when the call returns every path of the paths argument has
\* exactly one element, also a path that occurs several times in paths or that is
\* enqueued again as a structural child of another node.
C21_AtMostOnce ==
    /\ \A i \in 1..Len(elements) : \A j \in 1..Len(elements) :
          elements[i].path = elements[j].path => i = j
    /\ pc = "returned" =>
          \A n \in 1..Len(paths) : Cardinality(ElementsOf(paths[n])) = 1

\* C21 witness: generate has returned on paths in which one path occurs twice and is
\* also the structural child of another path of paths, so that it was enqueued
\* three times.
C21_Witness ==
    /\ pc = "returned"
    /\ \E i \in 1..Len(paths) : \E j \in 1..Len(paths) : \E k \in 1..Len(paths) :
          /\ i < j
          /\ paths[i] = paths[j]
          /\ ChildOf(paths[i], paths[k])

\* C22 (every node is emitted), as claimed: when generate returns, every node of
\* all_nodes, which is every key of the returned identifier map, has exactly one
\* element whose own identifier is the node's map value, also a node that is a
\* prefix of a path of paths without being in paths.
C22_EveryNodeEmitted ==
    pc = "returned" =>
        /\ DOMAIN result.ids = all_nodes
        /\ \A node \in all_nodes :
              Cardinality({i \in 1..Len(result.xml) :
                             result.xml[i].about = result.ids[node]}) = 1

\* C22, what the loop does emit: when generate returns, the emitted nodes are the
\* nodes of all_nodes of which some prefix, the node included, is in paths.
C22_EmittedNodes ==
    pc = "returned" =>
        {elements[i].path : i \in 1..Len(elements)} =
            {node \in all_nodes : \E i \in 1..Len(node) : Prefix(node, i) \in Range(paths)}

\* C23 (parent before child), as claimed: in the document of parse followed by
\* generate, the element of every emitted node comes after the element of its
\* structural parent, whenever that parent is emitted at all.
C23_ParentBeforeChild ==
    \A i \in 1..Len(elements) : \A j \in 1..Len(elements) :
        ChildOf(elements[i].path, elements[j].path) => j < i

\* C23 for the parents that carried no external id: the element of every emitted
\* node comes after the element of its structural parent when that parent is a
\* materialized path.
C23_MaterializedParentBeforeChild ==
    \A i \in 1..Len(elements) : \A j \in 1..Len(elements) :
        (ChildOf(elements[i].path, elements[j].path) /\ elements[j].path \in Range(paths))
            => j < i

\* C24 (FIFO emission order): the elements of the paths given to generate come in
\* the order of their first occurrence in paths; every element of a node that is
\* not in paths comes after all of them, and these come in the order in which
\* their nodes were enqueued, which is the order of the child references written.
C24_FifoOrder ==
    LET emitted == [i \in 1..Len(elements) |-> elements[i].path]
        seeded == SelectSeq(emitted, LAMBDA p : p \in Range(paths))
        outside == SelectSeq(elements, LAMBDA e : e.path \notin Range(paths))
        outside_refs == [i \in 1..Len(outside) |-> RefToId(outside[i].about)]
        enqueued == SelectSeq(EnqueuedRefs(elements), LAMBDA r : r \in OutsideRefs)
    IN  /\ IsPrefix(seeded, FirstOccurrences(paths))
        /\ \A i \in 1..Len(emitted) : \A j \in 1..Len(emitted) :
              (emitted[i] \notin Range(paths) /\ emitted[j] \in Range(paths)) => j < i
        /\ outside # <<>> => seeded = FirstOccurrences(paths)
        /\ IsPrefix(outside_refs, enqueued)
        /\ pc = "returned" => seeded = FirstOccurrences(paths) /\ outside_refs = enqueued

\* C24 witness: generate has returned on paths that are not sorted and has emitted
\* two nodes that are not in paths, the larger one first.
C24_Witness ==
    /\ pc = "returned"
    /\ \E i \in 1..Len(elements) : \E j \in 1..Len(elements) :
          /\ i < j
          /\ elements[i].path \notin Range(paths)
          /\ elements[j].path \notin Range(paths)
          /\ PathLess(elements[j].path, elements[i].path)
    /\ \E n \in 1..(Len(paths) - 1) : PathLess(paths[n + 1], paths[n])

\* C25 (external_children bookkeeping): after parse, external id U is listed under
\* P exactly when some virtual container of length greater than 1 with external id
\* U has the parent path P and P is no virtual container; each virtual container
\* contributes its id once, and no key of external_children is a virtual container.
C25_ExternalChildren ==
    Parsed =>
        LET parents == DictKeys(external_children)
                        \cup {Prefix(V, Len(V) - 1) : V \in VirtualPaths}
        IN  /\ \A P \in parents : \A U \in Uids :
                  (DictHas(external_children, P) /\ U \in Range(DictGet(external_children, P)))
                      <=> (\E V \in VirtualChildren(P) : VirtualId(V) = U)
            /\ \A P \in DictKeys(external_children) :
                  /\ Len(DictGet(external_children, P)) = Cardinality(VirtualChildren(P))
                  /\ P \notin VirtualPaths
                  /\ Cardinality({i \in 1..Len(external_children) :
                                     external_children[i][1] = P}) = 1

\* C25 witness: parse has run on records naming two virtual containers under the
\* same parent, one of them twice with different external ids; the parent has a
\* list of two ids.
C25_Witness ==
    /\ pc = "parsed"
    /\ \E P \in DictKeys(external_children) : Len(DictGet(external_children, P)) = 2
    /\ \E i \in NamingRecords : \E j \in NamingRecords :
          /\ i < j
          /\ NormOf(records[i]) = NormOf(records[j])
          /\ records[i][2] # "" /\ records[j][2] # ""
          /\ records[i][2] # records[j][2]

\* C25 witness for a virtual parent: parse has run on a virtual container whose
\* parent is a virtual container, and on a virtual container of length 1.
C25_VirtualParent ==
    /\ pc = "parsed"
    /\ \E V \in VirtualPaths : Len(V) > 1 /\ Prefix(V, Len(V) - 1) \in VirtualPaths
    /\ \E V \in VirtualPaths : Len(V) = 1
    /\ external_children = <<>>

\* C26 (external_children has no visible effect): the document generate returned
\* is the one its arguments determine, and a generate call that differs only in
\* the external_children argument, whatever identifiers it draws, gives the same
\* elements with the same types, names, parent references, child references and
\* code fields up to the renaming of generated identifiers; no external id listed
\* in external_children is written as a child reference.
C26_ExternalChildrenUnused ==
    pc = "returned" =>
        /\ \E order \in IterOrders(all_nodes) :
              /\ IdMap(order) = result.ids
              /\ generate(paths, external_children, RootUid, cck_map, parent_uid_map,
                           order).xml = result.xml
        /\ \A other \in ExternalChoices(all_nodes) : \A order \in IterOrders(all_nodes) :
              LET twin == generate(paths, other, RootUid, cck_map, parent_uid_map, order)
              IN  SameDocument(result.xml, result.ids, twin.xml, twin.ids)
        /\ \A i \in 1..Len(result.xml) : \A k \in 1..Len(result.xml[i].child_refs) :
              \A j \in 1..Len(external_children) :
                 \A u \in Range(external_children[j][2]) :
                    /\ result.xml[i].child_refs[k] # RefToUid(u)
                    /\ result.xml[i].child_refs[k] # Hash(<<u>>)

\* C26 witness: generate has returned on a call whose external_children lists an
\* external id under a node that was emitted as a container with a child reference.
C26_Witness ==
    /\ pc = "returned"
    /\ \E j \in 1..Len(external_children) : \E i \in 1..Len(result.xml) :
          /\ result.xml[i].path = external_children[j][1]
          /\ external_children[j][2] # <<>>
          /\ result.xml[i].child_refs # <<>>

\* C27 (references resolve to emitted elements), as claimed: when generate has
\* returned, every child reference, and every parent reference that denotes a
\* generated identifier, is textually the own identifier (rdf:about) of exactly one
\* element of the document, the element of the referenced node.
C27_ReferencesResolve ==
    pc = "returned" =>
        \A i \in 1..Len(elements) :
            LET e == elements[i]
                generated == {id_map[n] : n \in all_nodes}
                            \cup {RefToId(id_map[n]) : n \in all_nodes}
                refs == Range(e.child_refs) \cup ({e.parent} \cap generated)
            IN  \A r \in refs :
                   Cardinality({j \in 1..Len(elements) : elements[j].about = r}) = 1

\* C27, what is written: every child reference is "#_" followed by the own
\* identifier of exactly one element, the element of that child.
C27_ChildReferencesPrefixed ==
    pc = "returned" =>
        \A i \in 1..Len(elements) : \A k \in 1..Len(elements[i].child_refs) :
            Cardinality({j \in 1..Len(elements) :
                           /\ elements[i].child_refs[k] = Hash(elements[j].about)
                           /\ ChildOf(elements[j].path, elements[i].path)}) = 1

\* the normalized path a CSV row names
RowPath(row) == _normalize_path(SplitParts(StripPath(RowGet(row, "path", <<>>))))

\* C28 (back-annotated identifiers match the document), as claimed: every row with
\* an empty identifier column whose normalized path is materialized gets, from
\* _create_modified_csv, the generated identifier, without its "#_", of the element
\* emitted for that path, also a row whose raw path repeats a segment.
C28_AnnotationMatchesDocument ==
    pc \in {"returned", "written", "raised"} =>
        \A i \in 1..Len(new_lines) :
            (/\ StripUid(RowGet(rows[i], "uid", <<>>)) = <<>>
             /\ RowPath(rows[i]) \in Range(paths))
                => \E j \in 1..Len(elements) :
                      /\ elements[j].path = RowPath(rows[i])
                      /\ RowGet(new_lines[i], "uid", <<>>) = RemoveHash(elements[j].about)

\* C28 for the rows without a repeated segment: a row with an empty identifier
\* column whose raw path has no two consecutive equal segments and is materialized
\* gets the generated identifier of the element emitted for that path.
C28_NormalizedRowsMatch ==
    pc \in {"returned", "written", "raised"} =>
        \A i \in 1..Len(new_lines) :
            (/\ StripUid(RowGet(rows[i], "uid", <<>>)) = <<>>
             /\ RowPath(rows[i]) \in Range(paths)
             /\ NoRepeat(SplitParts(StripPath(RowGet(rows[i], "path", <<>>)))))
                => \E j \in 1..Len(elements) :
                      /\ elements[j].path = RowPath(rows[i])
                      /\ RowGet(new_lines[i], "uid", <<>>) = RemoveHash(elements[j].about)

\* the record sequence recs in the order perm
Permuted(recs, perm) == [i \in 1..Len(recs) |-> recs[perm[i]]]

\* C29 (order independence of resolution): for every permutation of the records,
\* parse returns the same materialized-path sequence and the same key sets of
\* external_children, code_map and virtual_parent_map.
C29_OrderIndependent ==
    Parsed =>
        \A perm \in Permutations(1..Len(records)) :
            LET r == parse(Permuted(records, perm))
            IN  /\ r.paths = paths
                /\ DictKeys(r.external_children) = DictKeys(external_children)
                /\ DictKeys(r.cck_map) = DictKeys(cck_map)
                /\ DictKeys(r.parent_uid_map) = DictKeys(parent_uid_map)

\* C29 witness: parse has run on three records of which some permutation gives
\* other values in external_children and in virtual_parent_map, and something is
\* materialized.
C29_Witness ==
    /\ pc = "parsed"
    /\ Len(records) = 3
    /\ paths # <<>>
    /\ \E perm \in Permutations(1..Len(records)) :
          LET r == parse(Permuted(records, perm))
          IN  /\ r.external_children # external_children
              /\ r.parent_uid_map # parent_uid_map

\* the dequeues of the loop so far: what was put in the queue and is no longer in it
Dequeues == Len(paths) + Len(EnqueuedRefs(elements)) - Len(q)

\* C30 (termination of emission): the work-queue loop of a generate call on
\* non-empty paths reaches the return with an empty queue; the elements emitted
\* never exceed the nodes of all_nodes in number, and the dequeues never exceed the
\* paths given plus the nodes of all_nodes.
C30_Termination ==
    /\ [](pc \in {"loop", "returned"} =>
            /\ Len(elements) <= Cardinality(all_nodes)
            /\ Dequeues <= Len(paths) + Cardinality(all_nodes))
    /\ [](pc = "returned" => q = <<>> /\ result.status = "ok")
    /\ ((pc = "loop" /\ paths # <<>>) ~> (pc = "returned" /\ q = <<>>))

\* C30 witness: generate has returned with an empty queue after a loop in which two
\* dequeues met a node already processed and every node of all_nodes was emitted.
C30_Witness ==
    /\ pc = "returned"
    /\ q = <<>>
    /\ Dequeues >= Len(elements) + 2
    /\ Len(elements) = Cardinality(all_nodes)
    /\ Len(elements) >= 2

====
